---------------------------- MODULE Spec2Model ----------------------------
(***************************************************************************)
(* A model of yaffshiv (src/yaffshiv.py): the YAFFS log parser             *)
(* (YAFFSParser.next_entry), the path/entry maps (YAFFSExtractor.parse),   *)
(* the three materialisation passes (YAFFSExtractor.extract), the file     *)
(* size rule (YAFFSEntry.__init__), the geometry auto-detection            *)
(* (YAFFSConfig._auto_detect_settings) and the command line (__main__).    *)
(*                                                                         *)
(* Scaling.  TLC's integers are 32 bits wide, so the 32-bit fields of the  *)
(* header are modelled as WordBits-bit fields that occupy one cell of the  *)
(* image each, and the 254-byte name field as NameField cells.  The header *)
(* fields that neither parse() nor extract() reads are left out of the     *)
(* layout.  The cursor arithmetic (page_size, spare_size, offset,          *)
(* data_len, file_size, bytes_remaining) is the code's, cell for byte.     *)
(* The geometry detector compares bytes only, so it is modelled on real    *)
(* bytes with the real page sizes and the real 10240-byte sample.          *)
(***************************************************************************)
EXTENDS Integers, Sequences, FiniteSets, TLC

VARIABLES
    config,           \* YAFFSConfig: page_size, spare_size, ecclayout, endianess
    data,             \* YAFFS.data: the image held by the parser / extractor
    offset,           \* YAFFS.offset: the parser's cursor
    pc,               \* position of the program
    err,              \* the exception that ended the program ("" when none)
    obj_hdr,          \* next_entry's obj_hdr (the entry being read / yielded)
    bytes_remaining,  \* next_entry's bytes_remaining
    file_paths,       \* YAFFSExtractor.file_paths
    file_entries,     \* YAFFSExtractor.file_entries
    pass,             \* which of extract()'s three loops is running (0: none)
    todo,             \* keys of file_paths the running loop has not visited yet
    counts,           \* extract()'s (dir_count, file_count, link_count)
    fs,               \* the host filesystem: path -> kind of node
    calls,            \* the creating host calls made so far, in order
    hdr_end,          \* history: the cursor right after the last decoded header chunk
    yielded,          \* history: every record next_entry has yielded, in order
    sample_data,      \* YAFFSConfig.sample_data
    built,            \* the geometry a synthesised image was built with
    words,            \* the (file_size_low, file_size_high) pair under test
    argv,             \* sys.argv[1:], as (option, argument) pairs
    opts,             \* the pairs of getopt's result the option loop has not seen yet
    locals            \* the variables of __main__ that the options set

vars == <<config, data, offset, pc, err, obj_hdr, bytes_remaining, file_paths,
          file_entries, pass, todo, counts, fs, calls, hdr_end, yielded,
          sample_data, built, words, argv, opts, locals>>

parseVars == <<data, offset, obj_hdr, bytes_remaining, file_paths,
               file_entries, hdr_end, yielded>>
extractVars == <<pass, todo, counts, fs, calls>>
detectVars == <<sample_data, built>>
mainVars == <<argv, opts, locals>>

---------------------------------------------------------------------------
(* Bounds of the model *)

\* width, in bits, of a header field (32 in the code)
WordBits == 4
\* cells of the name field (YAFFS_MAX_NAME_LENGTH + 1 = 254 in the code)
NameField == 2
\* most chunks an image is built from
MaxChunks == 3
\* most cells cut off the end of the image
MaxCut == 3
\* the cursor is a Python int and never overflows; the model stops following
\* it this many cells past the end of the image
MaxOverrun == 12

---------------------------------------------------------------------------
(* Generic helpers *)

Min(a, b) == IF a < b THEN a ELSE b

Max(a, b) == IF a > b THEN a ELSE b

\* Python's s[a:b] for 0 <= a, 0 <= b (0-based, end exclusive, clipped)
Slice(s, a, b) == SubSeq(s, a + 1, Min(b, Len(s)))

\* n copies of v
Fill(n, v) == [i \in 1..n |-> v]

RECURSIVE FlattenSeq(_)
FlattenSeq(ss) == IF ss = <<>> THEN <<>> ELSE Head(ss) \o FlattenSeq(Tail(ss))

\* the set {s[i]}
Range(s) == {s[i] : i \in 1..Len(s)}

\* all sequences over S of length 1..n
RECURSIVE SeqsUpTo(_, _)
SeqsUpTo(S, n) ==
    IF n = 0 THEN {}
    ELSE LET shorter == SeqsUpTo(S, n - 1)
         IN  {<<x>> : x \in S} \cup {Append(s, x) : s \in shorter, x \in S}

---------------------------------------------------------------------------
(* YAFFS constants *)

YAFFS_OBJECT_TYPE_UNKNOWN == 0
YAFFS_OBJECT_TYPE_FILE == 1
YAFFS_OBJECT_TYPE_SYMLINK == 2
YAFFS_OBJECT_TYPE_DIRECTORY == 3
YAFFS_OBJECT_TYPE_HARDLINK == 4
YAFFS_OBJECT_TYPE_SPECIAL == 5

\* 0xFFFFFFFF, scaled to the width of a field
AllOnes == 2^WordBits - 1

\* the characters of the model: "a", "b", "/", ".", "o"
CH_a == 10
CH_b == 11
CH_slash == 12
CH_dot == 13
CH_o == 14

\* YAFFSParser.printset: the cells that stand for string.printable bytes
printset == {CH_a, CH_b, CH_slash, CH_dot, CH_o}

---------------------------------------------------------------------------
(* YAFFS base class: strings and the file size rule *)

\* YAFFS.null_terminate_string
null_terminate_string(s) ==
    IF \E i \in 1..Len(s) : s[i] = 0
    THEN LET i == CHOOSE k \in 1..Len(s) :
                     s[k] = 0 /\ \A j \in 1..(k - 1) : s[j] # 0
         IN  SubSeq(s, 1, i - 1)
    ELSE s

\* Python's a | b on non-negative integers
RECURSIVE BitOr(_, _)
BitOr(a, b) ==
    IF a = 0 THEN b
    ELSE IF b = 0 THEN a
    ELSE (IF a % 2 = 1 \/ b % 2 = 1 THEN 1 ELSE 0) + 2 * BitOr(a \div 2, b \div 2)

\* Python's a << n
ShiftLeft(a, n) == a * 2^n

\* a plausible slip: the two halves swapped
FileSizeSwapped(low, high) ==
    IF low # AllOnes THEN BitOr(high, ShiftLeft(low, WordBits))
    ELSE IF high # AllOnes THEN high
    ELSE 0

\* YAFFSEntry.__init__, "Calculate file size"
FileSize(low, high) ==
    IF high # AllOnes THEN BitOr(low, ShiftLeft(high, WordBits))
    ELSE IF low # AllOnes THEN low
    ELSE 0

\* posixpath.join(a, b), as parse() and extract() call it
Join(a, b) ==
    IF b # <<>> /\ b[1] = CH_slash THEN b
    ELSE IF a = <<>> \/ a[Len(a)] = CH_slash THEN a \o b
    ELSE a \o <<CH_slash>> \o b

---------------------------------------------------------------------------
(* Header and spare layout (scaled) *)

\* cells of a header page that YAFFSEntry reads: obj_type, parent_obj_id,
\* name, file_size_low, equiv_id, file_size_high
HeaderLen == 5 + NameField

\* cells of a spare that YAFFSSpare reads: (junk), chunk_id, obj_id
SpareNeed(ecclayout) == IF ecclayout THEN 2 ELSE 3

\* YAFFSSpare.__init__: the obj_id field of a spare
SpareObjId(spare, ecclayout) == IF ecclayout THEN spare[2] ELSE spare[3]

\* every read of YAFFSEntry.__init__ and YAFFSSpare.__init__ finds its bytes
\* (struct.unpack raises on a short slice)
Decodable(page, spare, ecclayout) ==
    Len(page) >= HeaderLen /\ Len(spare) >= SpareNeed(ecclayout)

\* YAFFSEntry.__init__: the record of a header page and its spare
YAFFSEntry(page, spare, ecclayout) ==
    [ yaffs_obj_type |-> page[1],
      parent_obj_id  |-> page[2],
      name           |-> null_terminate_string(SubSeq(page, 3, 2 + NameField)),
      file_size_low  |-> page[3 + NameField],
      equiv_id       |-> page[4 + NameField],
      file_size_high |-> page[5 + NameField],
      file_size      |-> FileSize(page[3 + NameField], page[5 + NameField]),
      yaffs_obj_id   |-> SpareObjId(spare, ecclayout),
      file_data      |-> <<>> ]

\* the value of obj_hdr before any header has been read
NoEntry ==
    [ yaffs_obj_type |-> 0, parent_obj_id |-> 0, name |-> <<>>,
      file_size_low |-> 0, equiv_id |-> 0, file_size_high |-> 0,
      file_size |-> 0, yaffs_obj_id |-> 0, file_data |-> <<>> ]

\* len(data)
data_len == Len(data)

\* YAFFS.read_page at cursor off: the page, the spare and the new cursor
read_page(off) ==
    [ data   |-> Slice(data, off, off + config.page_size),
      spare  |-> Slice(data, off + config.page_size,
                             off + config.page_size + config.spare_size),
      offset |-> off + config.page_size + config.spare_size ]


---------------------------------------------------------------------------
(* Configuration *)

LITTLE_ENDIAN == "<"
BIG_ENDIAN == ">"
DEFAULT_PAGE_SIZE == 2048
DEFAULT_SPARE_SIZE == 64

\* YAFFSConfig.__init__ without keyword arguments
DefaultConfig ==
    [ endianess |-> LITTLE_ENDIAN, page_size |-> DEFAULT_PAGE_SIZE,
      spare_size |-> DEFAULT_SPARE_SIZE, ecclayout |-> TRUE,
      preserve_mode |-> TRUE, preserve_owner |-> FALSE ]

\* the geometries the parser is run with (__main__: -p, -s and -n override
\* the defaults): an ECC layout whose spare holds the two fields and nothing
\* else, and a no-ECC layout with a padded header page and a padded spare
Configs ==
    { [DefaultConfig EXCEPT !.page_size = HeaderLen, !.spare_size = 2,
                            !.ecclayout = TRUE],
      [DefaultConfig EXCEPT !.page_size = HeaderLen + 1, !.spare_size = 4,
                            !.ecclayout = FALSE] }

---------------------------------------------------------------------------
(* Images: the inputs of the parser *)

\* a header of the log, before it is laid out: size is "none" (both halves
\* 0xFFFFFFFF), "zero", "small" (less than a page) or "two" (a page and a cell)
Hdr(type, id, parent, name, size, equiv) ==
    [ kind |-> "header", type |-> type, id |-> id, parent |-> parent,
      name |-> name, size |-> size, equiv |-> equiv ]

Templates ==
    { Hdr(YAFFS_OBJECT_TYPE_DIRECTORY, 2, 1, <<CH_a>>, "none", 0),
      Hdr(YAFFS_OBJECT_TYPE_DIRECTORY, 2, 1, <<CH_b>>, "none", 0),
      Hdr(YAFFS_OBJECT_TYPE_FILE, 3, 2, <<CH_a>>, "zero", 0),
      Hdr(YAFFS_OBJECT_TYPE_FILE, 3, 2, <<CH_b>>, "small", 0),
      Hdr(YAFFS_OBJECT_TYPE_FILE, 3, 1, <<CH_b>>, "two", 0),
      Hdr(YAFFS_OBJECT_TYPE_HARDLINK, 4, 1, <<CH_b, CH_a>>, "none", 3),
      Hdr(YAFFS_OBJECT_TYPE_HARDLINK, 4, 2, <<CH_b>>, "none", 5),
      Hdr(YAFFS_OBJECT_TYPE_SYMLINK, 4, 1, <<CH_a, CH_b>>, "none", 0),
      Hdr(YAFFS_OBJECT_TYPE_SPECIAL, 3, 2, <<CH_a>>, "none", 0),
      [kind |-> "data"] }

SizeLow(size, cfg) ==
    CASE size = "none"  -> AllOnes
      [] size = "zero"  -> 0
      [] size = "small" -> 2
      [] size = "two"   -> cfg.page_size + 1

SizeHigh(size) == IF size = "two" THEN 0 ELSE AllOnes

\* a spare: (junk), chunk_id, obj_id, then 0xFF up to spare_size
SpareOf(cfg, chunk_id, obj_id) ==
    LET fields == (IF cfg.ecclayout THEN <<>> ELSE <<AllOnes>>)
                  \o <<chunk_id, obj_id>>
    IN  fields \o Fill(cfg.spare_size - Len(fields), AllOnes)

\* a header page: the fields at their offsets, then 0xFF up to page_size
HeaderPage(t, cfg) ==
    <<t.type, t.parent>>
    \o t.name \o Fill(NameField - Len(t.name), 0)
    \o <<SizeLow(t.size, cfg), t.equiv, SizeHigh(t.size)>>
    \o Fill(cfg.page_size - HeaderLen, AllOnes)

\* the k-th chunk's data page: every cell differs from its neighbours and
\* from every cell of a spare
DataPage(k, cfg) == [i \in 1..cfg.page_size |-> ((i + k) % 9) + 1]

\* the k-th chunk of an image: a page and its spare
Chunk(t, k, cfg) ==
    IF t.kind = "header"
    THEN HeaderPage(t, cfg) \o SpareOf(cfg, 0, t.id)
    ELSE DataPage(k, cfg) \o SpareOf(cfg, 1, 3)

\* the image made of the chunks ts, with cut cells missing at its end
Image(ts, cut, cfg) ==
    LET whole == FlattenSeq([k \in 1..Len(ts) |-> Chunk(ts[k], k, cfg)])
    IN  Slice(whole, 0, Max(Len(whole) - cut, 0))

Logs == {<<>>} \cup SeqsUpTo(Templates, MaxChunks)

---------------------------------------------------------------------------
(* Maps *)

EmptyMap == <<>>

Has(m, k) == k \in DOMAIN m

Put(m, k, v) == [x \in (DOMAIN m) \cup {k} |-> IF x = k THEN v ELSE m[x]]

---------------------------------------------------------------------------
(* The host filesystem *)

\* the output directory; __main__ has just created it
OutDir == <<CH_o>>

\* the components of a path: the cells between its slashes
RECURSIVE SplitPath(_)
SplitPath(p) ==
    IF \E i \in 1..Len(p) : p[i] = CH_slash
    THEN LET i == CHOOSE k \in 1..Len(p) :
                     p[k] = CH_slash /\ \A j \in 1..(k - 1) : p[j] # CH_slash
         IN  <<SubSeq(p, 1, i - 1)>> \o SplitPath(SubSeq(p, i + 1, Len(p)))
    ELSE <<p>>

\* the root directory, as the first component of an absolute path
RootDir == <<CH_slash>>
DotDot == <<CH_dot, CH_dot>>

\* the node a list of components names, walked from the directory acc: empty
\* components and "." stay, ".." goes up (out of the working directory too)
RECURSIVE Walk(_, _)
Walk(acc, comps) ==
    IF comps = <<>> THEN acc
    ELSE LET c == Head(comps)
             next == IF c = <<>> \/ c = <<CH_dot>> THEN acc
                     ELSE IF c # DotDot THEN Append(acc, c)
                     ELSE IF acc = <<>> \/ acc[Len(acc)] = DotDot
                          THEN Append(acc, c)
                     ELSE IF acc = <<RootDir>> THEN acc
                     ELSE SubSeq(acc, 1, Len(acc) - 1)
         IN  Walk(next, Tail(comps))

\* the node a path names: its components from the working directory (or
\* from RootDir for an absolute path)
Resolve(p) ==
    IF p # <<>> /\ p[1] = CH_slash THEN Walk(<<RootDir>>, SplitPath(p))
    ELSE Walk(<<>>, SplitPath(p))

\* the directories of the host that exist before the program runs: the
\* working directory, the root and the directories above the working one
HostDir(n) == n = <<>> \/ n = <<RootDir>> \/ (n # <<>> /\ \A i \in 1..Len(n) : n[i] = DotDot)

InitFs == [n \in {Resolve(OutDir)} |-> "dir"]

Exists(f, n) == HostDir(n) \/ n \in DOMAIN f

IsDir(f, n) == HostDir(n) \/ (n \in DOMAIN f /\ f[n] = "dir")

ParentOf(n) == SubSeq(n, 1, Len(n) - 1)

\* the proper ancestors of a node, and the node
Prefixes(n) == {SubSeq(n, 1, k) : k \in 1..Len(n)}

\* os.makedirs(path): the missing ancestors are created, then the directory;
\* it raises when the directory exists or an ancestor is no directory
MakedirsOk(f, n) ==
    /\ ~Exists(f, n)
    /\ \A q \in Prefixes(n) : Exists(f, q) => IsDir(f, q)

MakedirsFs(f, n) ==
    LET made == {q \in Prefixes(n) : ~Exists(f, q)}
    IN  [q \in (DOMAIN f) \cup made |-> IF q \in made THEN "dir" ELSE f[q]]

\* open(path, 'wb'): the parent must be a directory, the path none
OpenOk(f, n) == IsDir(f, ParentOf(n)) /\ ~IsDir(f, n) /\ n # <<>>

\* os.mknod, os.symlink: the parent must be a directory, the path new
CreateOk(f, n) == IsDir(f, ParentOf(n)) /\ ~Exists(f, n) /\ n # <<>>

\* os.link(src, dst): src must exist and be no directory, dst as for mknod
LinkOk(f, src, dst) == Exists(f, src) /\ ~IsDir(f, src) /\ CreateOk(f, dst)

SetNode(f, n, kind) == [q \in (DOMAIN f) \cup {n} |-> IF q = n THEN kind ELSE f[q]]

\* one creating host call, as it is logged
Call(op, id, path, ok, bytes) ==
    [op |-> op, id |-> id, path |-> path, ok |-> ok, data |-> bytes]

---------------------------------------------------------------------------
(* Initial states *)

\* Python's None, and a variable that holds a value
None == <<>>
Some(v) == <<v>>

\* the variables of __main__ before the option loop; "-o" assigns
\* preserve_ownership, a name that is unbound until then
NoLocals ==
    [ page_size |-> None, spare_size |-> None, endianess |-> None,
      ecclayout |-> None, preserve_mode |-> None, preserve_owner |-> None,
      auto_detect |-> None, preserve_ownership |-> None ]

\* a run whose command line names the image and the output directory only
NoOptions ==
    /\ argv = <<>>
    /\ opts = <<>>
    /\ locals = NoLocals

Idle ==
    /\ sample_data = <<>>
    /\ built = DefaultConfig
    /\ words = <<0, 0>>
    /\ NoOptions

\* __main__ up to fs.parse(): the image is read, the output directory is
\* created, the configuration is set, YAFFSExtractor.__init__ has run
Init ==
    /\ config \in Configs
    /\ \E ts \in Logs, cut \in 0..MaxCut : data = Image(ts, cut, config)
    /\ offset = 0
    /\ pc = "next_entry"
    /\ err = ""
    /\ obj_hdr = NoEntry
    /\ bytes_remaining = 0
    /\ file_paths = EmptyMap
    /\ file_entries = EmptyMap
    /\ pass = 0
    /\ todo = {}
    /\ counts = [dir_count |-> 0, file_count |-> 0, link_count |-> 0]
    /\ fs = InitFs
    /\ calls = <<>>
    /\ hdr_end = 0
    /\ yielded = <<>>
    /\ Idle

---------------------------------------------------------------------------
(* YAFFSParser.next_entry and YAFFSExtractor.parse *)

\* set(obj_hdr.name).issubset(self.printset), under "if obj_hdr.name"
NameOk(name) == name = <<>> \/ Range(name) \subseteq printset

\* a plausible slip: the cursor left out of the comparison
OversizeNoCursor(file_size, off) == file_size > data_len

\* obj_hdr.file_size > (self.data_len - self.offset)
Oversize(file_size, off) == file_size > data_len - off

\* a plausible slip: main catches the exception and goes on to extract
ParseErrorCaught == "extract"

\* where an exception raised inside fs.parse() takes __main__: nothing
\* catches it, the interpreter exits
ParseErrorPc == "raised"

\* a plausible slip: the whole page is always appended
DataTakenWhole(d, remaining) == d

\* the part of a data page appended to file_data
DataTaken(d, remaining) ==
    IF Len(d) < remaining THEN d ELSE Slice(d, 0, remaining)

\* a plausible slip: the parent's path is ignored
ParsePathNameOnly(paths, entry) == entry.name

\* parse(): the path of an entry, from the paths known when it is inserted
ParsePath(paths, entry) ==
    IF Has(paths, entry.parent_obj_id)
    THEN Join(paths[entry.parent_obj_id], entry.name)
    ELSE entry.name

\* a plausible slip: the first header of an obj_id is kept
InsertEntryFirstWins(entries, entry) ==
    IF Has(entries, entry.yaffs_obj_id) THEN entries
    ELSE Put(entries, entry.yaffs_obj_id, entry)

\* parse(): self.file_entries[entry.yaffs_obj_id] = entry
InsertEntry(entries, entry) == Put(entries, entry.yaffs_obj_id, entry)

Raise(e) ==
    /\ pc' = ParseErrorPc
    /\ err' = e

\* next_entry, from the head of its loop to the head of the data-page loop:
\* read the header chunk, decode it, check the name and the file size
ReadHeader ==
    /\ pc = "next_entry"
    /\ offset < data_len
    /\ LET r == read_page(offset)
       IN  /\ offset' = r.offset
           /\ IF ~Decodable(r.data, r.spare, config.ecclayout)
              THEN /\ Raise("struct.error")
                   /\ UNCHANGED <<obj_hdr, bytes_remaining, hdr_end>>
              ELSE LET h == YAFFSEntry(r.data, r.spare, config.ecclayout)
                   IN  /\ obj_hdr' = h
                       /\ hdr_end' = r.offset
                       /\ IF ~NameOk(h.name)
                          THEN /\ Raise("non-printable file name")
                               /\ UNCHANGED bytes_remaining
                          ELSE IF h.file_size > 0 /\ Oversize(h.file_size, r.offset)
                          THEN /\ Raise("file size exceeds the end")
                               /\ UNCHANGED bytes_remaining
                          ELSE /\ bytes_remaining' = h.file_size
                               /\ pc' = IF h.file_size > 0 THEN "read_data"
                                                           ELSE "yield"
                               /\ err' = err
    /\ UNCHANGED <<config, data, file_paths, file_entries, yielded>>
    /\ UNCHANGED <<extractVars, detectVars, words, mainVars>>

\* one iteration of "while bytes_remaining"
ReadDataPage ==
    /\ pc = "read_data"
    /\ offset < data_len + MaxOverrun
    /\ LET r == read_page(offset)
           taken == DataTaken(r.data, bytes_remaining)
           left == IF Len(r.data) < bytes_remaining
                   THEN bytes_remaining - Len(r.data) ELSE 0
       IN  /\ offset' = r.offset
           /\ obj_hdr' = [obj_hdr EXCEPT !.file_data = @ \o taken]
           /\ bytes_remaining' = left
           /\ pc' = IF left = 0 THEN "yield" ELSE "read_data"
    /\ UNCHANGED <<config, data, err, file_paths, file_entries, hdr_end, yielded>>
    /\ UNCHANGED <<extractVars, detectVars, words, mainVars>>

\* "yield obj_hdr" and the body of parse()'s loop
ParseEntry ==
    /\ pc = "yield"
    /\ LET path == ParsePath(file_paths, obj_hdr)
       IN  /\ file_paths' = Put(file_paths, obj_hdr.yaffs_obj_id, path)
           /\ file_entries' = InsertEntry(file_entries, obj_hdr)
           /\ yielded' = Append(yielded, [entry |-> obj_hdr, path |-> path,
                                          hdr_end |-> hdr_end, end |-> offset])
    /\ pc' = "next_entry"
    /\ UNCHANGED <<config, data, offset, err, obj_hdr, bytes_remaining, hdr_end>>
    /\ UNCHANGED <<extractVars, detectVars, words, mainVars>>

\* next_entry's loop ends, parse() returns, __main__ calls fs.extract()
ParseReturn ==
    /\ pc = "next_entry"
    /\ offset >= data_len
    /\ pc' = "extract"
    /\ UNCHANGED <<config, err, parseVars, extractVars, detectVars, words, mainVars>>

---------------------------------------------------------------------------
(* YAFFSExtractor.extract *)

\* the head of each of extract()'s three loops: Compat.iterator(file_paths)
StartPass ==
    /\ pc = "extract"
    /\ todo = {}
    /\ pass < 3
    /\ pass' = pass + 1
    /\ todo' = DOMAIN file_paths
    /\ UNCHANGED <<config, pc, err, parseVars, counts, fs, calls, detectVars, words, mainVars>>

\* a plausible slip: the files are written before the directories are made
LoopOfSwapped(n) ==
    CASE n = 1 -> "files"
      [] n = 2 -> "directories"
      [] n = 3 -> "links"
      [] OTHER -> "none"

\* the order of extract()'s loops: "Create directories", "Create files",
\* "Create hard/sym links"
LoopOf(n) ==
    CASE n = 1 -> "directories"
      [] n = 2 -> "files"
      [] n = 3 -> "links"
      [] OTHER -> "none"

\* one iteration of a loop that does nothing for this entry
Skip(id) ==
    /\ todo' = todo \ {id}
    /\ UNCHANGED <<pc, err, counts, fs, calls>>

\* os.makedirs(file_path); set_mode_owner; dir_count += 1, under try/except
DoMakedirs(id, path) ==
    LET n == Resolve(path)
        ok == MakedirsOk(fs, n)
    IN  /\ calls' = Append(calls, Call("makedirs", id, path, ok, <<>>))
        /\ fs' = IF ok THEN MakedirsFs(fs, n) ELSE fs
        /\ counts' = IF ok THEN [counts EXCEPT !.dir_count = @ + 1] ELSE counts
        /\ todo' = todo \ {id}
        /\ UNCHANGED <<pc, err>>

\* open(file_path, 'wb'); fp.write(file_data); set_mode_owner; file_count += 1
DoOpen(id, path) ==
    LET n == Resolve(path)
        ok == OpenOk(fs, n)
    IN  /\ calls' = Append(calls, Call("open", id, path, ok,
                                       IF ok THEN file_entries[id].file_data ELSE <<>>))
        /\ fs' = IF ok THEN SetNode(fs, n, "file") ELSE fs
        /\ counts' = IF ok THEN [counts EXCEPT !.file_count = @ + 1] ELSE counts
        /\ todo' = todo \ {id}
        /\ UNCHANGED <<pc, err>>

\* os.mknod(file_path, yst_mode, yst_rdev); file_count += 1
DoMknod(id, path) ==
    LET n == Resolve(path)
        ok == CreateOk(fs, n)
    IN  /\ calls' = Append(calls, Call("mknod", id, path, ok, <<>>))
        /\ fs' = IF ok THEN SetNode(fs, n, "node") ELSE fs
        /\ counts' = IF ok THEN [counts EXCEPT !.file_count = @ + 1] ELSE counts
        /\ todo' = todo \ {id}
        /\ UNCHANGED <<pc, err>>

\* os.symlink(entry.alias, dst); link_count += 1
DoSymlink(id, path) ==
    LET n == Resolve(path)
        ok == CreateOk(fs, n)
    IN  /\ calls' = Append(calls, Call("symlink", id, path, ok, <<>>))
        /\ fs' = IF ok THEN SetNode(fs, n, "symlink") ELSE fs
        /\ counts' = IF ok THEN [counts EXCEPT !.link_count = @ + 1] ELSE counts
        /\ todo' = todo \ {id}
        /\ UNCHANGED <<pc, err>>

\* src = os.path.join(outdir, self.file_paths[entry.equiv_id]) outside the
\* try block, then os.link(src, dst); link_count += 1 inside it
DoLink(id, path) ==
    LET equiv == file_entries[id].equiv_id
    IN  IF ~Has(file_paths, equiv)
        THEN /\ pc' = "raised"
             /\ err' = "KeyError"
             /\ UNCHANGED <<todo, counts, fs, calls>>
        ELSE LET src == Resolve(Join(OutDir, file_paths[equiv]))
                 n == Resolve(path)
                 ok == LinkOk(fs, src, n)
             IN  /\ calls' = Append(calls, Call("link", id, path, ok, <<>>))
                 /\ fs' = IF ok THEN SetNode(fs, n, fs[src]) ELSE fs
                 /\ counts' = IF ok THEN [counts EXCEPT !.link_count = @ + 1]
                                    ELSE counts
                 /\ todo' = todo \ {id}
                 /\ UNCHANGED <<pc, err>>

\* one iteration of "Create directories"
CreateDirectories ==
    /\ pc = "extract"
    /\ LoopOf(pass) = "directories"
    /\ \E id \in todo :
          LET file_path == file_paths[id]
              entry == file_entries[id]
          IN  IF file_path # <<>>
                 /\ entry.yaffs_obj_type = YAFFS_OBJECT_TYPE_DIRECTORY
              THEN DoMakedirs(id, Join(OutDir, file_path))
              ELSE Skip(id)
    /\ UNCHANGED <<config, parseVars, pass, detectVars, words, mainVars>>

\* one iteration of "Create files"
CreateFiles ==
    /\ pc = "extract"
    /\ LoopOf(pass) = "files"
    /\ \E id \in todo :
          LET file_path == file_paths[id]
              entry == file_entries[id]
          IN  IF file_path # <<>>
                 /\ entry.yaffs_obj_type = YAFFS_OBJECT_TYPE_FILE
              THEN DoOpen(id, Join(OutDir, file_path))
              ELSE IF file_path # <<>>
                      /\ entry.yaffs_obj_type = YAFFS_OBJECT_TYPE_SPECIAL
              THEN DoMknod(id, Join(OutDir, file_path))
              ELSE Skip(id)
    /\ UNCHANGED <<config, parseVars, pass, detectVars, words, mainVars>>

\* one iteration of "Create hard/sym links"
CreateLinks ==
    /\ pc = "extract"
    /\ LoopOf(pass) = "links"
    /\ \E id \in todo :
          LET file_path == file_paths[id]
              entry == file_entries[id]
          IN  IF file_path # <<>>
                 /\ entry.yaffs_obj_type = YAFFS_OBJECT_TYPE_SYMLINK
              THEN DoSymlink(id, Join(OutDir, file_path))
              ELSE IF file_path # <<>>
                      /\ entry.yaffs_obj_type = YAFFS_OBJECT_TYPE_HARDLINK
              THEN DoLink(id, Join(OutDir, file_path))
              ELSE Skip(id)
    /\ UNCHANGED <<config, parseVars, pass, detectVars, words, mainVars>>

\* return (dir_count, file_count, link_count), and __main__ reports it
ExtractReturn ==
    /\ pc = "extract"
    /\ pass = 3
    /\ todo = {}
    /\ pc' = "done"
    /\ UNCHANGED <<config, err, parseVars, extractVars, detectVars, words, mainVars>>

Next ==
    \/ ReadHeader
    \/ ReadDataPage
    \/ ParseEntry
    \/ ParseReturn
    \/ StartPass
    \/ CreateDirectories
    \/ CreateFiles
    \/ CreateLinks
    \/ ExtractReturn

Spec == Init /\ [][Next]_vars

---------------------------------------------------------------------------
(* Properties of the parser and the extractor, checked under Spec *)

\* the exceptions next_entry raises
ParseErrors == {"struct.error", "non-printable file name", "file size exceeds the end"}

\* the image bytes that remain after the header chunk that ends at cursor off
RemainingAfter(off) == Max(data_len - off, 0)

\* the obj_ids of the records yielded so far
YieldedIds == {yielded[i].entry.yaffs_obj_id : i \in DOMAIN yielded}

\* the place in the log of the last header that carries obj_id id
LastIdx(id) ==
    CHOOSE i \in DOMAIN yielded :
        /\ yielded[i].entry.yaffs_obj_id = id
        /\ \A j \in DOMAIN yielded : yielded[j].entry.yaffs_obj_id = id => j <= i

ParseDone == pc \in {"extract", "done"} \/ (pc = "raised" /\ err = "KeyError")

\* C1: iterating next_entry terminates: every pass through the head of the
\* header loop moves the cursor forward, and every iteration of the
\* data-page loop that stays in the loop leaves fewer bytes to read.
C1_NextEntryTerminates ==
    [][ /\ (pc = "next_entry" /\ pc' # "next_entry" /\ pc' # "extract")
            => offset' > offset
        /\ (pc = "read_data" /\ pc' = "read_data")
            => bytes_remaining' < bytes_remaining ]_vars

\* C2: a header whose file_size exceeds the bytes that remain after its page
\* and spare makes next_entry raise before any data page is read, and no
\* such record is ever yielded.
C2_OversizeRejected ==
    /\ obj_hdr.file_size > RemainingAfter(hdr_end)
         => /\ pc = "raised"
            /\ err \in ParseErrors
            /\ offset = hdr_end
            /\ obj_hdr.file_data = <<>>
    /\ \A i \in DOMAIN yielded :
          yielded[i].entry.file_size <= RemainingAfter(yielded[i].hdr_end)

\* the oversize error is raised after another record has been yielded
C2_Witness ==
    /\ pc = "raised"
    /\ err = "file size exceeds the end"
    /\ obj_hdr.file_size > RemainingAfter(hdr_end)
    /\ yielded # <<>>

\* C3: when parsing fails, no materialisation step is ever performed, and
\* materialisation starts only after the whole log was parsed without error.
C3_NoExtractAfterParseError ==
    /\ err \in ParseErrors => (calls = <<>> /\ fs = InitFs /\ pass = 0)
    /\ (calls # <<>> \/ pass # 0 \/ fs # InitFs)
          => (err \notin ParseErrors /\ offset >= data_len /\ ParseDone)

\* parsing failed after a directory and a file had been parsed
C3_Witness ==
    /\ pc = "raised"
    /\ err \in ParseErrors
    /\ \E i, j \in DOMAIN yielded :
          /\ yielded[i].entry.yaffs_obj_type = YAFFS_OBJECT_TYPE_DIRECTORY
          /\ yielded[j].entry.yaffs_obj_type = YAFFS_OBJECT_TYPE_FILE

\* C4: file_entries[obj_id] is the record of the last header in log order
\* that carries obj_id, and file_paths[obj_id] is the path computed when
\* that header was inserted.
C4_LastWriteWins ==
    /\ DOMAIN file_entries = YieldedIds
    /\ DOMAIN file_paths = YieldedIds
    /\ \A id \in YieldedIds :
          /\ file_entries[id] = yielded[LastIdx(id)].entry
          /\ file_paths[id] = yielded[LastIdx(id)].path

\* parse() has returned from a log in which a file with data was re-written
\* by a header of another name and no data
C4_Witness ==
    /\ ParseDone
    /\ \E i, j \in DOMAIN yielded :
          /\ i < j
          /\ yielded[i].entry.yaffs_obj_id = yielded[j].entry.yaffs_obj_id
          /\ yielded[i].entry.file_data # <<>>
          /\ yielded[j].entry.file_data = <<>>
          /\ yielded[i].entry.name # yielded[j].entry.name

\* C5 as claimed: after parse(), every entry whose parent is a key of
\* file_paths has the path join(file_paths[parent], name), and every entry
\* whose parent is 1 has the path name.
C5_PathComposition ==
    ParseDone =>
        \A id \in DOMAIN file_entries :
            LET E == file_entries[id]
            IN  /\ Has(file_paths, E.parent_obj_id)
                     => file_paths[id] = Join(file_paths[E.parent_obj_id], E.name)
                /\ E.parent_obj_id = 1 => file_paths[id] = E.name

\* C5 as amended: an entry whose parent's last header precedes the entry's
\* own last header in the log has the path join(file_paths[parent], name);
\* an entry whose last header has no header of its parent before it in the
\* log has the path name.
C5_PathCompositionInLogOrder ==
    \A id \in DOMAIN file_entries :
        LET E == file_entries[id]
            P == E.parent_obj_id
            k == LastIdx(id)
        IN  /\ (P \in YieldedIds /\ LastIdx(P) < k)
                 => file_paths[id] = Join(file_paths[P], E.name)
            /\ (\A j \in 1..(k - 1) : yielded[j].entry.yaffs_obj_id # P)
                 => file_paths[id] = E.name

\* parse() has returned from a log that re-writes an obj_id and holds a child
\* after its parent
C5_Witness ==
    /\ ParseDone
    /\ Len(yielded) > Cardinality(DOMAIN file_entries)
    /\ \E id \in DOMAIN file_entries :
          /\ file_entries[id].parent_obj_id \in YieldedIds
          /\ LastIdx(file_entries[id].parent_obj_id) < LastIdx(id)

\* the loop a creating host call belongs to
Rank(op) ==
    CASE op = "makedirs" -> 1
      [] op \in {"open", "mknod"} -> 2
      [] op \in {"symlink", "link"} -> 3

CalledFor(op, id) == \E i \in DOMAIN calls : calls[i].op = op /\ calls[i].id = id

\* C6: every directory creation precedes every file or device-node creation,
\* which precedes every link creation; when a file is created the directory
\* loop has visited every entry and every DIRECTORY entry has been
\* attempted, and when a hard link is created its target FILE entry has
\* been attempted.
C6_PassOrdering ==
    /\ \A i, j \in DOMAIN calls : i < j => Rank(calls[i].op) <= Rank(calls[j].op)
    /\ (\E i \in DOMAIN calls : Rank(calls[i].op) >= 2)
          => /\ pass >= 2
             /\ \A id \in DOMAIN file_entries :
                   (/\ file_entries[id].yaffs_obj_type = YAFFS_OBJECT_TYPE_DIRECTORY
                    /\ file_paths[id] # <<>>) => CalledFor("makedirs", id)
    /\ (\E i \in DOMAIN calls : Rank(calls[i].op) = 3) => pass = 3
    /\ \A i \in DOMAIN calls :
          calls[i].op = "link" =>
             LET t == file_entries[calls[i].id].equiv_id
             IN  (/\ Has(file_entries, t)
                  /\ file_entries[t].yaffs_obj_type = YAFFS_OBJECT_TYPE_FILE
                  /\ file_paths[t] # <<>>)
                 => \E j \in 1..(i - 1) : calls[j].op = "open" /\ calls[j].id = t

\* extract() has returned after it made a directory, a file in it and a hard
\* link to the file
C6_Witness ==
    /\ pc = "done"
    /\ \E i, j, k \in DOMAIN calls :
          /\ calls[i].op = "makedirs" /\ calls[i].ok
          /\ calls[j].op = "open" /\ calls[j].ok
          /\ calls[k].op = "link" /\ calls[k].ok
          /\ file_entries[calls[j].id].parent_obj_id = calls[i].id
          /\ file_entries[calls[k].id].equiv_id = calls[j].id

\* C7: a HARDLINK entry whose equiv_id is no key of file_paths is skipped:
\* extract() does not abort in its link loop.
C7_DanglingLinkSkipped ==
    (\E id \in DOMAIN file_entries :
        /\ file_entries[id].yaffs_obj_type = YAFFS_OBJECT_TYPE_HARDLINK
        /\ ~Has(file_paths, file_entries[id].equiv_id))
    => ~(pc = "raised" /\ pass = 3)

\* the cell of the image that holds byte k (from 1) of the file whose header
\* chunk ends at cursor off
DataCell(off, k) ==
    off + ((k - 1) \div config.page_size) * (config.page_size + config.spare_size)
        + ((k - 1) % config.page_size) + 1

\* the chunks a file of n bytes takes
PagesOf(n) == (n + config.page_size - 1) \div config.page_size

\* C9: the file_data of a yielded record has length file_size and is the
\* page bytes of the chunks that follow the header chunk, in image order,
\* cut at file_size; exactly those chunks are consumed (none for size 0);
\* the bytes written for a FILE entry are its file_data.
C9_FileData ==
    /\ \A i \in DOMAIN yielded :
          LET r == yielded[i]
              n == r.entry.file_size
          IN  /\ Len(r.entry.file_data) = n
              /\ \A k \in 1..n :
                    /\ DataCell(r.hdr_end, k) <= data_len
                    /\ r.entry.file_data[k] = data[DataCell(r.hdr_end, k)]
              /\ r.end = r.hdr_end + PagesOf(n) * (config.page_size + config.spare_size)
    /\ \A i \in DOMAIN calls :
          (calls[i].op = "open" /\ calls[i].ok)
             => /\ calls[i].data = file_entries[calls[i].id].file_data
                /\ Len(calls[i].data) = file_entries[calls[i].id].file_size

\* extract() has written a file of more than one page
C9_Witness ==
    /\ pc = "done"
    /\ \E i \in DOMAIN calls :
          /\ calls[i].op = "open" /\ calls[i].ok
          /\ Len(calls[i].data) > config.page_size

---------------------------------------------------------------------------
(* The file size rule: YAFFSEntry.__init__ on every pair of halves *)

Word == 0..AllOnes

\* a header chunk whose size fields hold the pair w, for geometry cfg
SizedHeader(w, cfg) ==
    <<YAFFS_OBJECT_TYPE_FILE, 1>> \o Fill(NameField, 0) \o <<w[1], 0, w[2]>>
    \o Fill(cfg.page_size - HeaderLen, AllOnes) \o SpareOf(cfg, 0, 2)

InitSize ==
    /\ config \in Configs
    /\ words \in Word \X Word
    /\ data = SizedHeader(words, config)
    /\ offset = 0
    /\ pc = "entry"
    /\ err = ""
    /\ obj_hdr = NoEntry
    /\ bytes_remaining = 0
    /\ file_paths = EmptyMap
    /\ file_entries = EmptyMap
    /\ pass = 0
    /\ todo = {}
    /\ counts = [dir_count |-> 0, file_count |-> 0, link_count |-> 0]
    /\ fs = InitFs
    /\ calls = <<>>
    /\ hdr_end = 0
    /\ yielded = <<>>
    /\ sample_data = <<>>
    /\ built = DefaultConfig
    /\ NoOptions

\* obj_hdr = YAFFSEntry(obj_hdr_data, obj_hdr_spare, self.config)
DecodeEntry ==
    /\ pc = "entry"
    /\ LET r == read_page(offset)
       IN  /\ Decodable(r.data, r.spare, config.ecclayout)
           /\ obj_hdr' = YAFFSEntry(r.data, r.spare, config.ecclayout)
           /\ offset' = r.offset
           /\ hdr_end' = r.offset
    /\ pc' = "decoded"
    /\ UNCHANGED <<config, data, err, bytes_remaining, file_paths, file_entries,
                   yielded, extractVars, detectVars, words, mainVars>>

NextSize == DecodeEntry

SpecSize == InitSize /\ [][NextSize]_vars

\* C8: file_size is (high << 32) | low when high is not 0xFFFFFFFF, low when
\* only high is 0xFFFFFFFF, and 0 when both are (fields scaled to WordBits).
C8_FileSizeRule ==
    pc = "decoded" =>
        LET low == words[1]
            high == words[2]
        IN  /\ obj_hdr.file_size_low = low
            /\ obj_hdr.file_size_high = high
            /\ high # AllOnes => obj_hdr.file_size = high * (AllOnes + 1) + low
            /\ (high = AllOnes /\ low # AllOnes) => obj_hdr.file_size = low
            /\ (high = AllOnes /\ low = AllOnes) => obj_hdr.file_size = 0

\* a header whose two halves are both set, neither 0 nor 0xFFFFFFFF
C8_Witness ==
    /\ pc = "decoded"
    /\ words[1] = 3
    /\ words[2] = 2
    /\ obj_hdr.file_size = 2 * (AllOnes + 1) + 3

---------------------------------------------------------------------------
(* Geometry auto-detection: YAFFSConfig._auto_detect_settings, on bytes *)

SPARE_START_BIG_ENDIAN_ECC == <<0, 0, 16, 0>>
SPARE_START_BIG_ENDIAN_NO_ECC == <<255, 255, 0, 0, 16, 0>>
SPARE_START_LITTLE_ENDIAN_ECC == <<0, 16, 0, 0>>
SPARE_START_LITTLE_ENDIAN_NO_ECC == <<255, 255, 0, 16, 0, 0>>

\* valid_page_sizes, without the -1 that ends the list
valid_page_sizes == <<512, 1024, 2048, 4096, 8192, 16384>>

\* valid_spare_sizes: page_size / 32 for every valid page size
valid_spare_sizes == {valid_page_sizes[i] \div 32 : i \in DOMAIN valid_page_sizes}

\* __main__: sample_data=data[0:10240]
SAMPLE_SIZE == 10240

\* sample[at:].startswith(sig), at counted from 0
StartsWith(sample, at, sig) ==
    /\ at + Len(sig) <= Len(sample)
    /\ \A i \in 1..Len(sig) : sample[at + i] = sig[i]

\* the signatures in the order the if/elif chain tests them, each with the
\* settings it fixes
Signatures ==
    << [sig |-> SPARE_START_LITTLE_ENDIAN_ECC, ecclayout |-> TRUE,
        endianess |-> LITTLE_ENDIAN],
       [sig |-> SPARE_START_LITTLE_ENDIAN_NO_ECC, ecclayout |-> FALSE,
        endianess |-> LITTLE_ENDIAN],
       [sig |-> SPARE_START_BIG_ENDIAN_ECC, ecclayout |-> TRUE,
        endianess |-> BIG_ENDIAN],
       [sig |-> SPARE_START_BIG_ENDIAN_NO_ECC, ecclayout |-> FALSE,
        endianess |-> BIG_ENDIAN] >>

\* the signatures that sample[page_size:] starts with
MatchesAt(sample, page_size) ==
    {k \in DOMAIN Signatures : StartsWith(sample, page_size, Signatures[k].sig)}

\* the least member of a non-empty set of integers
Least(S) == CHOOSE x \in S : \A y \in S : x <= y

\* the places of valid_page_sizes where some signature matches
PageHits(sample) ==
    {i \in DOMAIN valid_page_sizes : MatchesAt(sample, valid_page_sizes[i]) # {}}

\* sample[page_size:].index(sig): the places, from 0, where sig occurs
Occurrences(sample, page_size, sig) ==
    {i \in 0..(Len(sample) - page_size - Len(sig)) : StartsWith(sample, page_size + i, sig)}

\* a plausible slip: the whole signature is taken for the spare's tail
SpareSizeFromWholeSig(index) == index - 6

\* "Spare section ends 4 bytes before the spare_sig signature"
SpareSizeFrom(index) == index - 4

\* _auto_detect_settings: the configuration it leaves and how it ends
AutoDetect(cfg, sample) ==
    IF PageHits(sample) = {}
    THEN [config |-> cfg, err |-> "Could not locate start of spare data section"]
    ELSE LET page_size == valid_page_sizes[Least(PageHits(sample))]
             m == Signatures[Least(MatchesAt(sample, page_size))]
             c1 == [cfg EXCEPT !.page_size = page_size,
                               !.ecclayout = m.ecclayout,
                               !.endianess = m.endianess]
             off == IF ~c1.ecclayout THEN 6 ELSE 4
             spare_sig == Slice(sample, page_size + off, page_size + off + 4)
                          \o <<255, 255>>
             occ == Occurrences(sample, page_size, spare_sig)
         IN  IF occ = {}
             THEN [config |-> c1,
                   err |-> "Could not locate end of spare data section"]
             ELSE LET c2 == [c1 EXCEPT !.spare_size = SpareSizeFrom(Least(occ))]
                  IN  IF c2.spare_size \notin valid_spare_sizes
                      THEN [config |-> c2, err |-> "Detected an unlikely spare size"]
                      ELSE [config |-> c2, err |-> ""]

---------------------------------------------------------------------------
(* Synthesised images: the layout the comments of YAFFSConfig document *)

\* byte i (0 is first) of the 32-bit value v in the given byte order
WordByte(v, i, endianess) ==
    IF endianess = LITTLE_ENDIAN THEN (v \div 256^i) % 256
    ELSE (v \div 256^(3 - i)) % 256

\* the obj_ids of the image's two objects: a directory and its child
FirstObjId == 257
SecondObjId == 258
\* the first word of the first spare (0x00001000)
FirstSpareWord == 4096

\* byte r of the header page of chunk c (0 or 1): obj_type, parent_obj_id,
\* 0xFFFF, a three-letter name, zeroes to the end of the header structure,
\* then erased flash (0xFF)
SynthPageByte(g, c, r) ==
    IF r < 4 THEN WordByte(YAFFS_OBJECT_TYPE_DIRECTORY, r, g.endianess)
    ELSE IF r < 8 THEN WordByte(IF c = 0 THEN 1 ELSE FirstObjId, r - 4, g.endianess)
    ELSE IF r < 10 THEN 255
    ELSE IF r < 13 THEN 97 + c
    ELSE IF r < 509 THEN 0
    ELSE 255

\* byte r of the spare of chunk c: (0xFFFF without ECC layout), 0x00001000,
\* the obj_id, a zero word, then 0xFF
SynthSpareByte(g, c, r) ==
    LET q == IF g.ecclayout THEN r ELSE r - 2
    IN  IF q < 0 THEN 255
        ELSE IF q < 4 THEN WordByte(FirstSpareWord, q, g.endianess)
        ELSE IF q < 8 THEN WordByte(IF c = 0 THEN FirstObjId ELSE SecondObjId,
                                    q - 4, g.endianess)
        ELSE IF q < 12 THEN 0
        ELSE 255

\* byte k (0 is first) of the image built with geometry g
SynthByte(g, k) ==
    LET c == k \div (g.page_size + g.spare_size)
        r == k % (g.page_size + g.spare_size)
    IN  IF r < g.page_size THEN SynthPageByte(g, c, r)
        ELSE SynthSpareByte(g, c, r - g.page_size)

\* the image's length: two chunks
SynthLen(g) == 2 * (g.page_size + g.spare_size)

\* data[0:10240] of the image built with geometry g
SynthSample(g) == [i \in 1..Min(SAMPLE_SIZE, SynthLen(g)) |-> SynthByte(g, i - 1)]

\* the valid matrix: every page size, spare size, byte order and ECC layout
Geometries ==
    { [DefaultConfig EXCEPT !.page_size = valid_page_sizes[i], !.spare_size = ss,
                            !.endianess = e, !.ecclayout = ecc] :
        i \in DOMAIN valid_page_sizes, ss \in valid_spare_sizes,
        e \in {LITTLE_ENDIAN, BIG_ENDIAN}, ecc \in BOOLEAN }

\* __main__ with --auto, up to YAFFSConfig(auto=True, sample_data=data[0:10240])
InitDetect ==
    /\ built \in Geometries
    /\ sample_data = SynthSample(built)
    /\ config = DefaultConfig
    /\ pc = "config"
    /\ err = ""
    /\ data = <<>>
    /\ offset = 0
    /\ obj_hdr = NoEntry
    /\ bytes_remaining = 0
    /\ file_paths = EmptyMap
    /\ file_entries = EmptyMap
    /\ pass = 0
    /\ todo = {}
    /\ counts = [dir_count |-> 0, file_count |-> 0, link_count |-> 0]
    /\ fs = InitFs
    /\ calls = <<>>
    /\ hdr_end = 0
    /\ yielded = <<>>
    /\ words = <<0, 0>>
    /\ NoOptions

\* YAFFSConfig.__init__ with auto=True: "if self.auto and self.sample_data"
\* calls _auto_detect_settings; an empty sample is falsy, the call is skipped
\* and the constructor returns with the settings it had
AutoDetectSettings ==
    /\ pc = "config"
    /\ IF sample_data # <<>>
       THEN LET r == AutoDetect(config, sample_data)
            IN  /\ config' = r.config
                /\ err' = r.err
                /\ pc' = IF r.err = "" THEN "configured" ELSE "raised"
       ELSE /\ pc' = "configured"
            /\ UNCHANGED <<config, err>>
    /\ UNCHANGED <<parseVars, extractVars, detectVars, words, mainVars>>

NextDetect == AutoDetectSettings

SpecDetect == InitDetect /\ [][NextDetect]_vars

\* C10: auto-detection on the first 10 KiB of an image synthesised with any
\* geometry of the valid matrix ends without error and sets page_size,
\* spare_size, endianess and ecclayout to the values the image was built with.
C10_DetectionRoundTrip ==
    pc # "config" =>
        /\ pc = "configured"
        /\ config.page_size = built.page_size
        /\ config.spare_size = built.spare_size
        /\ config.endianess = built.endianess
        /\ config.ecclayout = built.ecclayout

\* what the detector does achieve: the round trip for page sizes that fit
\* the sample
DetectionRoundTripUpTo8192 ==
    (pc # "config" /\ built.page_size <= 8192) =>
        /\ pc = "configured"
        /\ config = built

---------------------------------------------------------------------------
(* Auto-detection on samples of any shape *)

\* the geometries the varied samples are built with
SmallGeometries ==
    { g \in Geometries : g.page_size <= 1024 /\ g.spare_size <= 32 }

\* the sample with the bytes of sig written over it from offset at on
Plant(sample, at, sig) ==
    [i \in DOMAIN sample |->
        IF i > at /\ i <= at + Len(sig) THEN sig[i - at] ELSE sample[i]]

\* the samples made from the image of geometry g: the whole image, the image
\* cut short (to nothing, before the first spare, inside its signature, before
\* the second header), and the image with a signature planted at another
\* candidate page size
SamplesOf(g) ==
    LET whole == SynthSample(g)
    IN  {whole}
        \cup {Slice(whole, 0, k) :
                 k \in {0, g.page_size, g.page_size + 3,
                        g.page_size + g.spare_size + 4}}
        \cup {Plant(whole, p, Signatures[k].sig) :
                 p \in {512, 1024} \ {g.page_size}, k \in DOMAIN Signatures}

InitDetectAny ==
    /\ built \in SmallGeometries
    /\ sample_data \in SamplesOf(built)
    /\ config = DefaultConfig
    /\ pc = "config"
    /\ err = ""
    /\ data = <<>>
    /\ offset = 0
    /\ obj_hdr = NoEntry
    /\ bytes_remaining = 0
    /\ file_paths = EmptyMap
    /\ file_entries = EmptyMap
    /\ pass = 0
    /\ todo = {}
    /\ counts = [dir_count |-> 0, file_count |-> 0, link_count |-> 0]
    /\ fs = InitFs
    /\ calls = <<>>
    /\ hdr_end = 0
    /\ yielded = <<>>
    /\ words = <<0, 0>>
    /\ NoOptions

SpecDetectAny == InitDetectAny /\ [][NextDetect]_vars

\* one of the four spare-start signatures is a prefix of sample_data[p:]
SignatureAt(p) ==
    \/ StartsWith(sample_data, p, SPARE_START_LITTLE_ENDIAN_ECC)
    \/ StartsWith(sample_data, p, SPARE_START_LITTLE_ENDIAN_NO_ECC)
    \/ StartsWith(sample_data, p, SPARE_START_BIG_ENDIAN_ECC)
    \/ StartsWith(sample_data, p, SPARE_START_BIG_ENDIAN_NO_ECC)

CandidatePages == {512, 1024, 2048, 4096, 8192, 16384}

\* the settings of the first signature that matches at p, tested in the order
\* little/ECC, little/no-ECC, big/ECC, big/no-ECC
FirstSignatureAt(p) ==
    IF StartsWith(sample_data, p, SPARE_START_LITTLE_ENDIAN_ECC)
    THEN [endianess |-> LITTLE_ENDIAN, ecclayout |-> TRUE]
    ELSE IF StartsWith(sample_data, p, SPARE_START_LITTLE_ENDIAN_NO_ECC)
    THEN [endianess |-> LITTLE_ENDIAN, ecclayout |-> FALSE]
    ELSE IF StartsWith(sample_data, p, SPARE_START_BIG_ENDIAN_ECC)
    THEN [endianess |-> BIG_ENDIAN, ecclayout |-> TRUE]
    ELSE [endianess |-> BIG_ENDIAN, ecclayout |-> FALSE]

\* detection ended without error with the settings of the smallest candidate
\* page size at which a signature matches, and a plausible spare size
DetectedSmallest ==
    /\ pc = "configured"
    /\ config.page_size \in CandidatePages
    /\ SignatureAt(config.page_size)
    /\ \A p \in CandidatePages : p < config.page_size => ~SignatureAt(p)
    /\ config.endianess = FirstSignatureAt(config.page_size).endianess
    /\ config.ecclayout = FirstSignatureAt(config.page_size).ecclayout
    /\ config.spare_size \in {p \div 32 : p \in CandidatePages}

\* detection failed; when no candidate matched, the settings are the
\* previous ones
DetectionFailed ==
    /\ pc = "raised"
    /\ err # ""
    /\ (\A p \in CandidatePages : ~SignatureAt(p))
          => /\ config.page_size = DefaultConfig.page_size
             /\ config.endianess = DefaultConfig.endianess
             /\ config.ecclayout = DefaultConfig.ecclayout

\* C14: auto-detection on any sample either fails with an error or ends with
\* page_size the smallest candidate at which one of the four signatures is a
\* prefix of sample[p:], endianess and ecclayout those of the first signature
\* matching there, and spare_size in {p/32}; when no candidate matches it
\* fails and leaves page_size, endianess and ecclayout as they were.
C14_DetectionOutcome ==
    pc # "config" =>
        /\ DetectedSmallest \/ DetectionFailed
        /\ (\A p \in CandidatePages : ~SignatureAt(p)) => pc = "raised"

\* what the detector does achieve: C14 on every sample that is not empty
DetectionOutcomeOnNonEmptySample ==
    (pc # "config" /\ sample_data # <<>>) =>
        /\ DetectedSmallest \/ DetectionFailed
        /\ (\A p \in CandidatePages : ~SignatureAt(p)) => pc = "raised"

\* a sample in which two candidate page sizes match is detected with the
\* smaller one
TwoCandidatesDetected ==
    /\ pc = "configured"
    /\ config.page_size = 512
    /\ SignatureAt(512)
    /\ SignatureAt(1024)

---------------------------------------------------------------------------
(* __main__: the command line and the configuration it leaves *)

\* most options on a command line (besides -f and -d, which every run has)
MaxOpts == 2

\* the short options of getopt's "f:d:p:s:e:c:oaD" that concern the
\* configuration, and its long options
ShortOpts == {"-p", "-s", "-e", "-c", "-o", "-a", "-D"}
LongOpts == {"--page-size", "--spare-size", "--endianess", "--no-ecc",
             "--ownership", "--debug", "--auto"}

\* getopt's long_has_args: an exact long option or a unique prefix of one
\* is returned under the option's full name
LongName(opt) == IF opt = "--spare" THEN "--spare-size" ELSE opt

\* getopt raises GetoptError for an option it does not know
Recognized(opt) == opt \in ShortOpts \/ LongName(opt) \in LongOpts

\* getopt: the (option, argument) pairs, long options under their full names
Getopt(args) == [i \in DOMAIN args |-> [args[i] EXCEPT !.opt = LongName(@)]]

\* "if arg.lower()[0] == 'b'"
EndianessOf(arg) ==
    IF arg \in {"big", "Big"} THEN BIG_ENDIAN ELSE LITTLE_ENDIAN

\* the options a command line is drawn from: each option the usage text
\* documents, in its short and long form, and the prefix "--spare"
Tokens ==
    [opt : {"-p", "--page-size"}, arg : {1024, 4096}]
    \cup [opt : {"-s", "--spare-size", "--spare"}, arg : {16, 128}]
    \cup [opt : {"-e", "--endianess"}, arg : {"Big", "little"}]
    \cup [opt : {"-n", "--no-ecc", "-o", "--ownership", "-a", "--auto"}, arg : {""}]

\* the images --auto is run on: their geometries differ from the defaults
MainGeometries ==
    { [DefaultConfig EXCEPT !.page_size = 512, !.spare_size = 16,
                            !.endianess = BIG_ENDIAN, !.ecclayout = FALSE],
      [DefaultConfig EXCEPT !.page_size = 1024, !.spare_size = 32] }

InitMain ==
    /\ argv \in {<<>>} \cup SeqsUpTo(Tokens, MaxOpts)
    /\ opts = <<>>
    /\ locals = NoLocals
    /\ built \in MainGeometries
    /\ sample_data = <<>>
    /\ config = DefaultConfig
    /\ pc = "getopt"
    /\ err = ""
    /\ data = <<>>
    /\ offset = 0
    /\ obj_hdr = NoEntry
    /\ bytes_remaining = 0
    /\ file_paths = EmptyMap
    /\ file_entries = EmptyMap
    /\ pass = 0
    /\ todo = {}
    /\ counts = [dir_count |-> 0, file_count |-> 0, link_count |-> 0]
    /\ fs = InitFs
    /\ calls = <<>>
    /\ hdr_end = 0
    /\ yielded = <<>>
    /\ words = <<0, 0>>

\* (opts, args) = getopt(...); GetoptError prints the usage and exits
ParseOptions ==
    /\ pc = "getopt"
    /\ IF \A i \in DOMAIN argv : Recognized(argv[i].opt)
       THEN /\ opts' = Getopt(argv)
            /\ pc' = "options"
            /\ err' = err
       ELSE /\ opts' = opts
            /\ pc' = "exit"
            /\ err' = "GetoptError"
    /\ UNCHANGED <<config, parseVars, extractVars, detectVars, words, argv, locals>>

\* the if/elif chain of the option loop, for one (opt, arg) pair
SetLocal(l, opt, arg) ==
    IF opt \in {"-a", "--auto"} THEN [l EXCEPT !.auto_detect = Some(TRUE)]
    ELSE IF opt \in {"-n", "--no-ecc"} THEN [l EXCEPT !.ecclayout = Some(FALSE)]
    ELSE IF opt \in {"-e", "--endianess"}
         THEN [l EXCEPT !.endianess = Some(EndianessOf(arg))]
    ELSE IF opt \in {"-s", "--spare"} THEN [l EXCEPT !.spare_size = Some(arg)]
    ELSE IF opt \in {"-p", "--page-size"} THEN [l EXCEPT !.page_size = Some(arg)]
    ELSE IF opt \in {"-o", "--ownership"}
         THEN [l EXCEPT !.preserve_ownership = Some(TRUE)]
    ELSE l

\* one iteration of "for (opt, arg) in opts"
OptionLoop ==
    /\ pc = "options"
    /\ opts # <<>>
    /\ locals' = SetLocal(locals, Head(opts).opt, Head(opts).arg)
    /\ opts' = Tail(opts)
    /\ UNCHANGED <<config, pc, err, parseVars, extractVars, detectVars, words, argv>>

\* "Manual settings override default / auto-detected settings": the six
\* "is not None" assignments
ManualSettings(cfg, l) ==
    LET c1 == IF l.spare_size # None THEN [cfg EXCEPT !.spare_size = l.spare_size[1]] ELSE cfg
        c2 == IF l.page_size # None THEN [c1 EXCEPT !.page_size = l.page_size[1]] ELSE c1
        c3 == IF l.endianess # None THEN [c2 EXCEPT !.endianess = l.endianess[1]] ELSE c2
        c4 == IF l.ecclayout # None THEN [c3 EXCEPT !.ecclayout = l.ecclayout[1]] ELSE c3
        c5 == IF l.preserve_mode # None
              THEN [c4 EXCEPT !.preserve_mode = l.preserve_mode[1]] ELSE c4
    IN  IF l.preserve_owner # None
        THEN [c5 EXCEPT !.preserve_owner = l.preserve_owner[1]] ELSE c5

\* the option loop is over: the image is read, the configuration is built
\* (detected from data[0:10240] with --auto, the defaults without), the manual
\* settings are applied and YAFFSExtractor is constructed
Configure ==
    /\ pc = "options"
    /\ opts = <<>>
    /\ IF locals.auto_detect # None
       THEN LET r == AutoDetect(DefaultConfig, SynthSample(built))
            IN  /\ sample_data' = SynthSample(built)
                /\ IF r.err # ""
                   THEN /\ config' = r.config
                        /\ pc' = "raised"
                        /\ err' = r.err
                   ELSE /\ config' = ManualSettings(r.config, locals)
                        /\ pc' = "configured"
                        /\ err' = err
       ELSE /\ config' = ManualSettings(DefaultConfig, locals)
            /\ pc' = "configured"
            /\ UNCHANGED <<err, sample_data>>
    /\ UNCHANGED <<parseVars, extractVars, built, words, mainVars>>

NextMain ==
    \/ ParseOptions
    \/ OptionLoop
    \/ Configure

SpecMain == InitMain /\ [][NextMain]_vars

\* the places of argv that hold one of the given spellings of an option
Given(names) == {i \in DOMAIN argv : argv[i].opt \in names}

\* the place of the last of them
Last(S) == CHOOSE x \in S : \A y \in S : y <= x

\* the configuration before the explicit options: the geometry the image was
\* built with when --auto is given (detection succeeded), else the defaults
BaseConfig == IF Given({"-a", "--auto"}) # {} THEN built ELSE DefaultConfig

PageOpts == {"-p", "--page-size"}
SpareOpts == {"-s", "--spare-size"}
EndianOpts == {"-e", "--endianess"}
EccOpts == {"-n", "--no-ecc"}
OwnerOpts == {"-o", "--ownership"}

\* C11: the configuration used for parsing reflects every explicitly given
\* option (the last one given, when an option is repeated), with or without
\* --auto: page_size from -p/--page-size, spare_size from -s/--spare-size,
\* endianess from -e/--endianess, ecclayout = False from -n/--no-ecc and
\* preserve_owner = True from -o/--ownership; a setting not given keeps the
\* detected value (with --auto) or the default.
C11_ConfigReflectsOptions ==
    pc = "configured" =>
        /\ config.page_size =
              IF Given(PageOpts) # {} THEN argv[Last(Given(PageOpts))].arg
              ELSE BaseConfig.page_size
        /\ config.spare_size =
              IF Given(SpareOpts) # {} THEN argv[Last(Given(SpareOpts))].arg
              ELSE BaseConfig.spare_size
        /\ config.endianess =
              IF Given(EndianOpts) # {}
              THEN EndianessOf(argv[Last(Given(EndianOpts))].arg)
              ELSE BaseConfig.endianess
        /\ config.ecclayout =
              IF Given(EccOpts) # {} THEN FALSE ELSE BaseConfig.ecclayout
        /\ config.preserve_owner =
              IF Given(OwnerOpts) # {} THEN TRUE ELSE BaseConfig.preserve_owner

\* the part of C11 the code does achieve: -p, -e and the short -s, and the
\* settings no option names
ConfigReflectsPageEndianShortSpare ==
    pc = "configured" =>
        /\ config.page_size =
              IF Given(PageOpts) # {} THEN argv[Last(Given(PageOpts))].arg
              ELSE BaseConfig.page_size
        /\ config.endianess =
              IF Given(EndianOpts) # {}
              THEN EndianessOf(argv[Last(Given(EndianOpts))].arg)
              ELSE BaseConfig.endianess
        /\ config.spare_size =
              IF Given({"-s"}) # {} THEN argv[Last(Given({"-s"}))].arg
              ELSE BaseConfig.spare_size
        /\ config.ecclayout =
              IF Given({"--no-ecc"}) # {} THEN FALSE ELSE BaseConfig.ecclayout
        /\ ~config.preserve_owner

---------------------------------------------------------------------------
(* Crafted images: size fields on headers of every type, nested            *)
(* directories, names that hold "/" and "."                                *)

CraftedTemplates ==
    { Hdr(YAFFS_OBJECT_TYPE_DIRECTORY, 2, 1, <<CH_a>>, "none", 0),
      Hdr(YAFFS_OBJECT_TYPE_DIRECTORY, 3, 2, <<CH_b>>, "none", 0),
      Hdr(YAFFS_OBJECT_TYPE_DIRECTORY, 3, 1, <<CH_dot, CH_dot>>, "small", 0),
      Hdr(YAFFS_OBJECT_TYPE_FILE, 4, 3, <<CH_a>>, "small", 0),
      Hdr(YAFFS_OBJECT_TYPE_SYMLINK, 5, 1, <<CH_slash, CH_a>>, "two", 0),
      Hdr(YAFFS_OBJECT_TYPE_HARDLINK, 6, 2, <<CH_b>>, "zero", 4),
      Hdr(YAFFS_OBJECT_TYPE_SPECIAL, 4, 3, <<CH_b>>, "none", 0),
      Hdr(YAFFS_OBJECT_TYPE_UNKNOWN, 7, 1, <<CH_a>>, "small", 0),
      [kind |-> "data"] }

CraftedLogs == {<<>>} \cup SeqsUpTo(CraftedTemplates, MaxChunks)

\* __main__ up to fs.parse(), on a crafted image
InitCrafted ==
    /\ config \in Configs
    /\ \E ts \in CraftedLogs, cut \in 0..MaxCut : data = Image(ts, cut, config)
    /\ offset = 0
    /\ pc = "next_entry"
    /\ err = ""
    /\ obj_hdr = NoEntry
    /\ bytes_remaining = 0
    /\ file_paths = EmptyMap
    /\ file_entries = EmptyMap
    /\ pass = 0
    /\ todo = {}
    /\ counts = [dir_count |-> 0, file_count |-> 0, link_count |-> 0]
    /\ fs = InitFs
    /\ calls = <<>>
    /\ hdr_end = 0
    /\ yielded = <<>>
    /\ Idle

SpecCrafted == InitCrafted /\ [][Next]_vars

\* C12: the parser consumes data pages only after a FILE header: a header of
\* any other type, whatever its file_size fields hold, is yielded with empty
\* file_data and the cursor right after its own chunk, never enters the data
\* loop and never raises the oversize error.
C12_DataOnlyAfterFile ==
    /\ \A i \in DOMAIN yielded :
          yielded[i].entry.yaffs_obj_type # YAFFS_OBJECT_TYPE_FILE
             => /\ yielded[i].entry.file_data = <<>>
                /\ yielded[i].end = yielded[i].hdr_end
    /\ pc = "read_data" => obj_hdr.yaffs_obj_type = YAFFS_OBJECT_TYPE_FILE
    /\ err = "file size exceeds the end"
          => obj_hdr.yaffs_obj_type = YAFFS_OBJECT_TYPE_FILE

\* what the code does instead: data pages follow every header whose
\* file_size is positive, of whatever type
DataAfterPositiveSize ==
    /\ \A i \in DOMAIN yielded :
          /\ Len(yielded[i].entry.file_data) = yielded[i].entry.file_size
          /\ yielded[i].entry.file_size = 0 => yielded[i].end = yielded[i].hdr_end
    /\ pc = "read_data" => obj_hdr.file_size > 0

---------------------------------------------------------------------------
(* extract() with its maps visited in ascending order of obj_id *)

\* the outcome of extract(): the host's nodes, the counters, and the entries
\* set_mode_owner was called for
NoOutcome ==
    [ fs |-> InitFs,
      counts |-> [dir_count |-> 0, file_count |-> 0, link_count |-> 0],
      modes |-> {} ]

\* the body of loop n (1: directories, 2: files, 3: links) for one key
LoopBody(n, st, id) ==
    LET file_path == file_paths[id]
        entry == file_entries[id]
        type == entry.yaffs_obj_type
        dst == Resolve(Join(OutDir, file_path))
    IN  IF file_path = <<>> THEN st
        ELSE IF LoopOf(n) = "directories" /\ type = YAFFS_OBJECT_TYPE_DIRECTORY
        THEN IF MakedirsOk(st.fs, dst)
             THEN [ fs |-> MakedirsFs(st.fs, dst),
                    counts |-> [st.counts EXCEPT !.dir_count = @ + 1],
                    modes |-> st.modes \cup {id} ]
             ELSE st
        ELSE IF LoopOf(n) = "files" /\ type = YAFFS_OBJECT_TYPE_FILE
        THEN IF OpenOk(st.fs, dst)
             THEN [ fs |-> SetNode(st.fs, dst, "file"),
                    counts |-> [st.counts EXCEPT !.file_count = @ + 1],
                    modes |-> st.modes \cup {id} ]
             ELSE st
        ELSE IF LoopOf(n) = "files" /\ type = YAFFS_OBJECT_TYPE_SPECIAL
        THEN IF CreateOk(st.fs, dst)
             THEN [st EXCEPT !.fs = SetNode(st.fs, dst, "node"),
                             !.counts.file_count = @ + 1]
             ELSE st
        ELSE IF LoopOf(n) = "links" /\ type = YAFFS_OBJECT_TYPE_SYMLINK
        THEN IF CreateOk(st.fs, dst)
             THEN [st EXCEPT !.fs = SetNode(st.fs, dst, "symlink"),
                             !.counts.link_count = @ + 1]
             ELSE st
        ELSE IF LoopOf(n) = "links" /\ type = YAFFS_OBJECT_TYPE_HARDLINK
                /\ Has(file_paths, entry.equiv_id)
        THEN LET src == Resolve(Join(OutDir, file_paths[entry.equiv_id]))
             IN  IF LinkOk(st.fs, src, dst)
                 THEN [st EXCEPT !.fs = SetNode(st.fs, dst, st.fs[src]),
                                 !.counts.link_count = @ + 1]
                 ELSE st
        ELSE st

\* loop n over the keys ids, the smallest first
RECURSIVE RunLoop(_, _, _)
RunLoop(n, st, ids) ==
    IF ids = {} THEN st
    ELSE LET id == Least(ids)
         IN  RunLoop(n, LoopBody(n, st, id), ids \ {id})

\* the three loops, each over all the keys of file_paths in ascending order
SortedOutcome ==
    LET keys == DOMAIN file_paths
    IN  RunLoop(3, RunLoop(2, RunLoop(1, NoOutcome, keys), keys), keys)

\* the outcome of the run at hand
Outcome ==
    [ fs |-> fs,
      counts |-> counts,
      modes |-> {calls[i].id : i \in {j \in DOMAIN calls :
                     calls[j].ok /\ calls[j].op \in {"makedirs", "open"}}} ]

\* C13: the outcome of extract() does not depend on the order in which a
\* loop visits the maps: whatever the order, a run that returns leaves the
\* nodes, the applied modes and the counter triple that the run in ascending
\* order of obj_id leaves.
C13_OrderIndependent ==
    pc = "done" => Outcome = SortedOutcome

---------------------------------------------------------------------------
(* Containment in the output directory *)

\* the node lies in the output directory (or is the output directory)
Inside(n) ==
    LET out == Resolve(OutDir)
    IN  Len(n) >= Len(out) /\ SubSeq(n, 1, Len(out)) = out

\* the source path extract() passes to os.link for the hard link id
LinkSrc(id) == Join(OutDir, file_paths[file_entries[id].equiv_id])

\* C15: every path that extract() passes to a creating host call resolves to
\* a node inside the output directory; it is stated here for the calls that
\* succeed only, the destination of each and the source of each os.link.
C15_Containment ==
    \A i \in DOMAIN calls :
        calls[i].ok =>
            /\ Inside(Resolve(calls[i].path))
            /\ calls[i].op = "link" => Inside(Resolve(LinkSrc(calls[i].id)))

=============================================================================
